---- MODULE Spec2Model ----
(***************************************************************************)
(* Model of lib/junction/middleware/message.js: the `message` middleware   *)
(* factory, the Handler (an events.EventEmitter) it creates, and the       *)
(* returned middleware function message(stanza, next).                     *)
(***************************************************************************)
EXTENDS Integers, Sequences, FiniteSets, TLC

\* Largest number of handler.on(...) calls the setup callback makes.
MaxRegistrations == 2

\* Largest number of middleware invocations kept in the log.
MaxInvocations == 2

\* Listener functions the application may attach.
Listeners == {"A", "B"}

\* Event names the application may listen on.  'error' is included because
\* EventEmitter treats it specially (message.js:88-91).
EventNames == {"composing", "paused", "normal", "err", "error", "chat"}

\* Further values of the 'type' attribute, which no listener is attached to.
OtherTypes == {"headline", "x-custom"}

\* Values stanza.attr('type') may return when the attribute is present; the
\* empty string is a present attribute whose value is falsy in JavaScript.
TypeValues == EventNames \cup OtherTypes \cup {""}

\* A stanza as far as the middleware looks at it: the element name tested by
\* stanza.is(...), the two children tested by stanza.getChild(...), and the
\* 'type' attribute read by stanza.attr('type') (hasType = FALSE: undefined).
Stanzas ==
    { s \in [name : {"message", "presence"}, composing : BOOLEAN,
             paused : BOOLEAN, hasType : BOOLEAN, type : TypeValues] :
        ~s.hasType => s.type = "" }

VARIABLES
    pc,          \* "start", "failed" (factory threw), "setup" (fn running), "ready"
    events,      \* handler._events: event name -> listeners in registration order
    setupCalls,  \* number of times the setup callback fn has been called
    last,        \* <<>> or <<outcome of the most recent middleware invocation>>
    factory,     \* <<>> or <<the call of the factory: its argument, the handler made>>
    log,         \* what successive middleware invocations did, in order
    peer         \* a second middleware, made by another call of the factory

vars == <<pc, events, setupCalls, last, factory, log, peer>>

\* new Handler(): an EventEmitter with no listeners.
Handler == [e \in EventNames |-> <<>>]

\* Total number of registered listeners.
RECURSIVE Count(_, _)
Count(ev, names) ==
    IF names = {} THEN 0
    ELSE LET n == CHOOSE x \in names : TRUE
         IN Len(ev[n]) + Count(ev, names \ {n})

\* handler.listeners(type): the listeners of an event, none if never attached.
ListenersOf(ev, type) == IF type \in DOMAIN ev THEN ev[type] ELSE <<>>

\* The outcome of emitting `type` with `arg` when the listeners ls[1..n] are
\* called in that order and the thrower-th call (0: none) raises.
Emitted(type, ls, arg, n, thrower) ==
    [emitted |-> <<type>>,
     calls   |-> [i \in 1..n |-> <<"call", ls[i], <<arg>>>>],
     thrower |-> thrower,
     error   |-> IF thrower > 0 THEN "listener" ELSE "none"]

\* A variant of emit that calls every listener even after one of them raised.
emit_isolating(ev, type, arg, throwAt) ==
    LET ls == ListenersOf(ev, type)
    IN Emitted(type, ls, arg, Len(ls), IF throwAt \in 1..Len(ls) THEN throwAt ELSE 0)

\* A variant of emit that calls the listeners latest-registered first.
emit_reversed(ev, type, arg, throwAt) ==
    LET ls  == ListenersOf(ev, type)
        rev == [i \in 1..Len(ls) |-> ls[Len(ls) + 1 - i]]
        k   == IF throwAt \in 1..Len(ls) THEN throwAt ELSE 0
    IN Emitted(type, rev, arg, IF k > 0 THEN k ELSE Len(ls), k)

\* EventEmitter.prototype.emit(type, arg) on the listener table ev: the
\* listeners of `type` are called in registration order with arg as the only
\* argument.  throwAt = k > 0: the k-th listener called raises (if there is a
\* k-th one) and the exception leaves emit at once.  An 'error' event without
\* listeners makes emit itself throw.
emit(ev, type, arg, throwAt) ==
    LET ls == ListenersOf(ev, type)
        k  == IF throwAt \in 1..Len(ls) THEN throwAt ELSE 0
    IN IF type = "error" /\ ls = <<>>
       THEN [emitted |-> <<type>>, calls |-> <<>>, thrower |-> 0, error |-> "unhandled"]
       ELSE Emitted(type, ls, arg, IF k > 0 THEN k ELSE Len(ls), k)

\* Variants of _handle, each with one slip.
\* 'paused' looked for before 'composing'.
handle_paused_first(ev, stanza, throwAt) ==
    IF stanza.paused THEN emit(ev, "paused", stanza, throwAt)
    ELSE IF stanza.composing THEN emit(ev, "composing", stanza, throwAt)
    ELSE IF ~stanza.hasType \/ stanza.type = "" THEN emit(ev, "normal", stanza, throwAt)
    ELSE IF stanza.type = "error" THEN emit(ev, "err", stanza, throwAt)
    ELSE emit(ev, stanza.type, stanza, throwAt)

\* The 'type' attribute looked at before the 'paused' child.
handle_type_before_paused(ev, stanza, throwAt) ==
    IF stanza.composing THEN emit(ev, "composing", stanza, throwAt)
    ELSE IF stanza.hasType /\ stanza.type = "error" THEN emit(ev, "err", stanza, throwAt)
    ELSE IF stanza.paused THEN emit(ev, "paused", stanza, throwAt)
    ELSE IF ~stanza.hasType \/ stanza.type = "" THEN emit(ev, "normal", stanza, throwAt)
    ELSE emit(ev, stanza.type, stanza, throwAt)

\* No branch for a missing 'type': emit(undefined, stanza).
handle_no_normal(ev, stanza, throwAt) ==
    IF stanza.composing THEN emit(ev, "composing", stanza, throwAt)
    ELSE IF stanza.paused THEN emit(ev, "paused", stanza, throwAt)
    ELSE IF stanza.hasType /\ stanza.type = "error" THEN emit(ev, "err", stanza, throwAt)
    ELSE emit(ev, IF stanza.hasType THEN stanza.type ELSE "undefined", stanza, throwAt)

\* No renaming of 'error' to 'err'.
handle_raw_error(ev, stanza, throwAt) ==
    IF stanza.composing THEN emit(ev, "composing", stanza, throwAt)
    ELSE IF stanza.paused THEN emit(ev, "paused", stanza, throwAt)
    ELSE IF ~stanza.hasType \/ stanza.type = "" THEN emit(ev, "normal", stanza, throwAt)
    ELSE emit(ev, stanza.type, stanza, throwAt)

\* Only the documented types are emitted; any other value is emitted as 'normal'.
handle_closed_set(ev, stanza, throwAt) ==
    IF stanza.composing THEN emit(ev, "composing", stanza, throwAt)
    ELSE IF stanza.paused THEN emit(ev, "paused", stanza, throwAt)
    ELSE IF ~stanza.hasType \/ stanza.type = "" THEN emit(ev, "normal", stanza, throwAt)
    ELSE IF stanza.type = "error" THEN emit(ev, "err", stanza, throwAt)
    ELSE IF stanza.type \in {"chat", "groupchat", "normal", "headline"}
         THEN emit(ev, stanza.type, stanza, throwAt)
    ELSE emit(ev, "normal", stanza, throwAt)

\* `if` for `else if` after the 'composing' branch: the later rules run too.
handle_fallthrough(ev, stanza, throwAt) ==
    LET rest == IF stanza.paused THEN emit(ev, "paused", stanza, throwAt)
                ELSE IF ~stanza.hasType \/ stanza.type = ""
                     THEN emit(ev, "normal", stanza, throwAt)
                ELSE IF stanza.type = "error" THEN emit(ev, "err", stanza, throwAt)
                ELSE emit(ev, stanza.type, stanza, throwAt)
        first == emit(ev, "composing", stanza, throwAt)
    IN IF ~stanza.composing THEN rest
       ELSE IF first.error # "none" THEN first
       ELSE [emitted |-> first.emitted \o rest.emitted,
             calls   |-> first.calls \o rest.calls,
             thrower |-> IF rest.thrower > 0 THEN Len(first.calls) + rest.thrower ELSE 0,
             error   |-> rest.error]

\* 'normal' only for a missing attribute (attr('type') === undefined): an
\* empty value is emitted as it is.
handle_strict_undefined(ev, stanza, throwAt) ==
    IF stanza.composing THEN emit(ev, "composing", stanza, throwAt)
    ELSE IF stanza.paused THEN emit(ev, "paused", stanza, throwAt)
    ELSE IF ~stanza.hasType THEN emit(ev, "normal", stanza, throwAt)
    ELSE IF stanza.type = "error" THEN emit(ev, "err", stanza, throwAt)
    ELSE emit(ev, stanza.type, stanza, throwAt)

\* Handler.prototype._handle(stanza)
_handle(ev, stanza, throwAt) ==
    IF stanza.composing THEN emit(ev, "composing", stanza, throwAt)
    ELSE IF stanza.paused THEN emit(ev, "paused", stanza, throwAt)
    ELSE IF ~stanza.hasType \/ stanza.type = "" THEN emit(ev, "normal", stanza, throwAt)
    ELSE IF stanza.type = "error" THEN emit(ev, "err", stanza, throwAt)
    ELSE emit(ev, stanza.type, stanza, throwAt)

\* What one call of the middleware did: the stanza it was given, the event
\* emitted (if any), the calls it made in order (listener calls and
\* <<"next">>), which listener call raised (0: none) and the error it let out.
Outcome(stanza, emitted, trace, thrower, error) ==
    [stanza |-> stanza, emitted |-> emitted, trace |-> trace,
     thrower |-> thrower, error |-> error]

\* A variant of the middleware without `return` in front of the first next().
middleware_no_return(ev, stanza, throwAt) ==
    LET h == _handle(ev, stanza, throwAt)
        pre == IF stanza.name # "message" THEN << <<"next">> >> ELSE <<>>
    IN IF h.error # "none"
       THEN Outcome(stanza, h.emitted, pre \o h.calls, h.thrower, h.error)
       ELSE Outcome(stanza, h.emitted, pre \o Append(h.calls, <<"next">>), 0, "none")

\* A variant of the middleware that catches what _handle throws.
middleware_catch(ev, stanza, throwAt) ==
    IF stanza.name # "message"
    THEN Outcome(stanza, <<>>, << <<"next">> >>, 0, "none")
    ELSE LET h == _handle(ev, stanza, throwAt)
         IN Outcome(stanza, h.emitted, Append(h.calls, <<"next">>), h.thrower, "none")

\* A variant of the middleware that calls next() before handler._handle.
middleware_next_first(ev, stanza, throwAt) ==
    IF stanza.name # "message"
    THEN Outcome(stanza, <<>>, << <<"next">> >>, 0, "none")
    ELSE LET h == _handle(ev, stanza, throwAt)
         IN Outcome(stanza, h.emitted, << <<"next">> >> \o h.calls, h.thrower, h.error)

\* The returned function message(stanza, next).
middleware(ev, stanza, throwAt) ==
    IF stanza.name # "message"
    THEN Outcome(stanza, <<>>, << <<"next">> >>, 0, "none")
    ELSE LET h == _handle(ev, stanza, throwAt)
         IN IF h.error # "none"
            THEN Outcome(stanza, h.emitted, h.calls, h.thrower, h.error)
            ELSE Outcome(stanza, h.emitted, Append(h.calls, <<"next">>), 0, "none")

\* The second middleware before the factory is called for it: its position,
\* which Handler it dispatches on (0: none yet), the listener table of the
\* Handler made for it, and the outcome of its most recent invocation.
NoPeer == [pc |-> "start", handler |-> 0, events |-> Handler, last |-> <<>>]

Init ==
    /\ pc = "start"
    /\ events = Handler
    /\ setupCalls = 0
    /\ last = <<>>
    /\ factory = <<>>
    /\ log = <<>>
    /\ peer = NoPeer

\* A variant of the factory that looks at fn only after `new Handler()`.
message_check_late(fn) ==
    /\ pc = "start"
    /\ factory' = << [fn |-> fn, handler |-> 1] >>
    /\ IF ~fn
       THEN /\ pc' = "failed"
            /\ UNCHANGED <<events, setupCalls, last>>
       ELSE /\ pc' = "setup"
            /\ events' = Handler
            /\ setupCalls' = setupCalls + 1
            /\ UNCHANGED last
    /\ UNCHANGED <<log, peer>>

\* A variant of the factory that returns the middleware without calling fn.
message_no_setup(fn) ==
    /\ pc = "start"
    /\ factory' = << [fn |-> fn, handler |-> IF fn THEN 1 ELSE 0] >>
    /\ IF ~fn
       THEN /\ pc' = "failed"
            /\ UNCHANGED <<events, setupCalls, last>>
       ELSE /\ pc' = "ready"
            /\ events' = Handler
            /\ UNCHANGED <<setupCalls, last>>
    /\ UNCHANGED <<log, peer>>

\* module.exports = function message(fn): throws without fn, otherwise
\* creates the handler and calls fn with it.
message(fn) ==
    /\ pc = "start"
    /\ factory' = << [fn |-> fn, handler |-> IF fn THEN 1 ELSE 0] >>
    /\ IF ~fn
       THEN /\ pc' = "failed"
            /\ UNCHANGED <<events, setupCalls, last>>
       ELSE /\ pc' = "setup"
            /\ events' = Handler
            /\ setupCalls' = setupCalls + 1
            /\ UNCHANGED last
    /\ UNCHANGED <<log, peer>>

\* handler.on(type, listener), called by fn during setup.
on(type, listener) ==
    /\ pc = "setup"
    /\ Count(events, EventNames) < MaxRegistrations
    /\ events' = [events EXCEPT ![type] = Append(@, listener)]
    /\ UNCHANGED <<pc, setupCalls, last, factory, log, peer>>

\* fn returns and the factory returns the middleware function.
setup_return ==
    /\ pc = "setup"
    /\ pc' = "ready"
    /\ UNCHANGED <<events, setupCalls, last, factory, log, peer>>

\* One call of the returned middleware by the pipeline.
message_stanza(stanza, throwAt) ==
    /\ pc = "ready"
    /\ last' = << middleware(events, stanza, throwAt) >>
    /\ UNCHANGED <<pc, events, setupCalls, factory, log, peer>>

Next ==
    \/ \E fn \in BOOLEAN : message(fn)
    \/ \E type \in EventNames, listener \in Listeners : on(type, listener)
    \/ setup_return
    \/ \E stanza \in Stanzas, throwAt \in 0..MaxRegistrations :
          message_stanza(stanza, throwAt)

Spec == Init /\ [][Next]_vars

(***************************************************************************)
(* Successive invocations of the middleware, logged in order.              *)
(***************************************************************************)
\* The stanzas and events of the logged runs: a chat message, the same with
\* a 'composing' child, an error message, and a presence stanza.
SeqStanzas ==
    { s \in Stanzas :
        /\ ~s.paused /\ s.hasType
        /\ \/ s.name = "message" /\ s.type = "chat"
           \/ s.name = "message" /\ s.type = "error" /\ ~s.composing
           \/ s.name = "presence" /\ s.type = "chat" /\ ~s.composing }

SeqEvents == {"composing", "chat", "err"}

\* Number of invocations the log holds.
Invocations(l) == Cardinality({k \in DOMAIN l : l[k][2] = "stage"})

\* What the n-th invocation adds to the log: the call of the middleware with
\* its stanza, the event emitted, each call made, and the error let out.
LogOf(n, r) ==
    << <<n, "stage", r.stanza>> >>
      \o [i \in 1..Len(r.emitted) |-> <<n, "emit", r.emitted[i]>>]
      \o [i \in 1..Len(r.trace) |-> <<n>> \o r.trace[i]]
      \o (IF r.error # "none" THEN << <<n, "throw">> >> ELSE <<>>)

\* A variant in which a handler that saw a listener raise treats every later
\* message stanza as an error stanza.
message_stanza_seq_sticky(stanza, throwAt) ==
    /\ pc = "ready"
    /\ Invocations(log) < MaxInvocations
    /\ LET broken == \E k \in DOMAIN log : log[k][2] = "throw"
           seen == IF broken /\ stanza.name = "message"
                   THEN [stanza EXCEPT !.composing = FALSE, !.paused = FALSE,
                                       !.hasType = TRUE, !.type = "error"]
                   ELSE stanza
           r == [middleware(events, seen, throwAt) EXCEPT !.stanza = stanza]
       IN /\ last' = << r >>
          /\ log' = log \o LogOf(Invocations(log) + 1, r)
    /\ UNCHANGED <<pc, events, setupCalls, factory, peer>>

\* A variant in which emitting removes the listeners it called from the table.
message_stanza_seq_consuming(stanza, throwAt) ==
    /\ pc = "ready"
    /\ Invocations(log) < MaxInvocations
    /\ LET r == middleware(events, stanza, throwAt)
           n == Len(SelectSeq(r.trace, LAMBDA c : c[1] = "call"))
       IN /\ last' = << r >>
          /\ log' = log \o LogOf(Invocations(log) + 1, r)
          /\ events' = IF n = 0 THEN events
                       ELSE [events EXCEPT ![r.emitted[1]] = SubSeq(@, n + 1, Len(@))]
    /\ UNCHANGED <<pc, setupCalls, factory, peer>>

\* One call of the returned middleware by the pipeline, logged.
message_stanza_seq(stanza, throwAt) ==
    /\ pc = "ready"
    /\ Invocations(log) < MaxInvocations
    /\ LET r == middleware(events, stanza, throwAt)
       IN /\ last' = << r >>
          /\ log' = log \o LogOf(Invocations(log) + 1, r)
    /\ UNCHANGED <<pc, events, setupCalls, factory, peer>>

NextSeq ==
    \/ \E fn \in BOOLEAN : message(fn)
    \/ \E type \in SeqEvents, listener \in Listeners : on(type, listener)
    \/ setup_return
    \/ \E stanza \in SeqStanzas, throwAt \in 0..MaxRegistrations :
          message_stanza_seq(stanza, throwAt)

SpecSeq == Init /\ [][NextSeq]_vars

(***************************************************************************)
(* Two middlewares, made by two calls of the factory.  `events` is the     *)
(* listener table of the Handler made by the first call (handler 1),       *)
(* peer.events that of the Handler made by the second call (handler 2).    *)
(***************************************************************************)
\* Listener functions the second application attaches.
PeerListeners == {"P"}

\* The events and stanzas of the runs with two middlewares.
PairEvents == {"chat", "err"}

PairStanzas ==
    { s \in Stanzas :
        /\ s.name = "message" /\ ~s.composing /\ ~s.paused
        /\ s.hasType /\ s.type \in {"chat", "error"} }

\* The listener table of the handler the second middleware closes over.
PeerTable == IF peer.handler = 1 THEN events ELSE peer.events

\* A variant of the factory with one Handler for the whole module: the second
\* call hands out the Handler of the first.
message_peer_shared(fn) ==
    /\ pc = "ready"
    /\ peer.pc = "start"
    /\ peer' = IF ~fn THEN [peer EXCEPT !.pc = "failed"]
               ELSE [peer EXCEPT !.pc = "setup", !.handler = 1]
    /\ UNCHANGED <<pc, events, setupCalls, last, factory, log>>

\* A second call message(fn), after the first has returned: `new Handler()`
\* makes handler 2, and fn is called with it.
message_peer(fn) ==
    /\ pc = "ready"
    /\ peer.pc = "start"
    /\ peer' = IF ~fn THEN [peer EXCEPT !.pc = "failed"]
               ELSE [peer EXCEPT !.pc = "setup", !.handler = 2, !.events = Handler]
    /\ UNCHANGED <<pc, events, setupCalls, last, factory, log>>

\* handler.on(type, listener), called by the second fn on the handler it was given.
on_peer(type, listener) ==
    /\ peer.pc = "setup"
    /\ Count(events, EventNames) + Count(peer.events, EventNames) < MaxRegistrations
    /\ IF peer.handler = 1
       THEN /\ events' = [events EXCEPT ![type] = Append(@, listener)]
            /\ UNCHANGED peer
       ELSE /\ peer' = [peer EXCEPT !.events[type] = Append(@, listener)]
            /\ UNCHANGED events
    /\ UNCHANGED <<pc, setupCalls, last, factory, log>>

\* The second fn returns and the factory returns the second middleware.
peer_setup_return ==
    /\ peer.pc = "setup"
    /\ peer' = [peer EXCEPT !.pc = "ready"]
    /\ UNCHANGED <<pc, events, setupCalls, last, factory, log>>

\* One call of the second middleware by its pipeline.
message_stanza_peer(stanza, throwAt) ==
    /\ peer.pc = "ready"
    /\ peer' = [peer EXCEPT !.last = << middleware(PeerTable, stanza, throwAt) >>]
    /\ UNCHANGED <<pc, events, setupCalls, last, factory, log>>

NextTwo ==
    \/ \E fn \in BOOLEAN : message(fn)
    \/ \E type \in PairEvents, listener \in Listeners : on(type, listener)
    \/ setup_return
    \/ \E stanza \in PairStanzas, throwAt \in 0..MaxRegistrations :
          message_stanza(stanza, throwAt)
    \/ \E fn \in BOOLEAN : message_peer(fn)
    \/ \E type \in PairEvents, listener \in PeerListeners : on_peer(type, listener)
    \/ peer_setup_return
    \/ \E stanza \in PairStanzas, throwAt \in 0..MaxRegistrations :
          message_stanza_peer(stanza, throwAt)

SpecTwo == Init /\ [][NextTwo]_vars

TypeOK ==
    /\ pc \in {"start", "failed", "setup", "ready"}
    /\ \A e \in EventNames : events[e] \in Seq(Listeners)
    /\ setupCalls \in 0..1
    /\ Len(last) <= 1

(***************************************************************************)
(* Reading an outcome.                                                     *)
(***************************************************************************)
IsCall(c) == c[1] = "call"
IsNext(c) == c[1] = "next"

\* The listener calls of an outcome, in order, and the listeners called.
Calls(r) == SelectSeq(r.trace, IsCall)
CalledFns(r) == [i \in 1..Len(Calls(r)) |-> Calls(r)[i][2]]

\* How many times next() was called.
NextCount(r) == Len(SelectSeq(r.trace, IsNext))

\* next() was called exactly once, as the last thing the middleware did.
NextOnceAtEnd(r) ==
    /\ NextCount(r) = 1
    /\ IsNext(r.trace[Len(r.trace)])

IsPrefix(s, t) == Len(s) <= Len(t) /\ \A i \in 1..Len(s) : s[i] = t[i]

\* Every listener call of r was given the stanza of r as its only argument.
PayloadIsStanza(r) == \A i \in 1..Len(Calls(r)) : Calls(r)[i][3] = <<r.stanza>>

\* r dispatched to category cat: that event and no other was emitted, and the
\* listeners called are listeners of cat, in their order, called with the stanza.
DispatchedTo(r, cat) ==
    /\ r.emitted = <<cat>>
    /\ IsPrefix(CalledFns(r), ListenersOf(events, cat))
    /\ PayloadIsStanza(r)

IsMessage(r) == r.stanza.name = "message"
NoMarker(r) == ~r.stanza.composing /\ ~r.stanza.paused
Handled == last # <<>>

(***************************************************************************)
(* C1: every message stanza with a 'composing' child is dispatched to the  *)
(* category composing, whatever its type attribute and whether or not it   *)
(* also has a 'paused' child.                                              *)
(***************************************************************************)
C1_ComposingFirst ==
    \A i \in DOMAIN last :
        (IsMessage(last[i]) /\ last[i].stanza.composing)
            => DispatchedTo(last[i], "composing")

\* A stanza with both children and type="error" has reached a composing listener.
C1_Witness ==
    /\ Handled
    /\ IsMessage(last[1])
    /\ last[1].stanza.composing /\ last[1].stanza.paused
    /\ last[1].stanza.hasType /\ last[1].stanza.type = "error"
    /\ CalledFns(last[1]) = <<"A">>

C6_TypeIsCategory ==
    \A i \in DOMAIN last :
        (IsMessage(last[i]) /\ NoMarker(last[i])
           /\ last[i].stanza.hasType /\ last[i].stanza.type \notin {"", "error"})
            => /\ DispatchedTo(last[i], last[i].stanza.type)
               /\ last[i].error # "unhandled"

\* A stanza of a type outside the documented ones went through.
C6_Witness ==
    /\ Handled
    /\ IsMessage(last[1]) /\ NoMarker(last[1])
    /\ last[1].stanza.hasType /\ last[1].stanza.type = "x-custom"
    /\ last[1].emitted = <<"x-custom">>
    /\ NextCount(last[1]) = 1

(***************************************************************************)
(* C7: a message stanza with a 'paused' child and no 'composing' child is  *)
(* dispatched to the category paused, whatever its type attribute.         *)
(***************************************************************************)
C7_PausedSecond ==
    \A i \in DOMAIN last :
        (IsMessage(last[i]) /\ last[i].stanza.paused /\ ~last[i].stanza.composing)
            => DispatchedTo(last[i], "paused")

\* A paused stanza of type="error" has reached a paused listener.
C7_Witness ==
    /\ Handled
    /\ IsMessage(last[1])
    /\ last[1].stanza.paused /\ ~last[1].stanza.composing
    /\ last[1].stanza.hasType /\ last[1].stanza.type = "error"
    /\ CalledFns(last[1]) = <<"B">>

(***************************************************************************)
(* C8: a message stanza with no marker child and no type attribute is      *)
(* dispatched to the category normal; the middleware does not reject it:   *)
(* it raises no error of its own, and none at all unless a listener of     *)
(* normal raises.                                                          *)
(***************************************************************************)
C8_NoTypeIsNormal ==
    \A i \in DOMAIN last :
        (IsMessage(last[i]) /\ NoMarker(last[i]) /\ ~last[i].stanza.hasType)
            => /\ DispatchedTo(last[i], "normal")
               /\ last[i].error # "unhandled"
               /\ last[i].thrower = 0 => last[i].error = "none"

\* A stanza without type and markers has reached a normal listener.
C8_Witness ==
    /\ Handled
    /\ IsMessage(last[1]) /\ NoMarker(last[1]) /\ ~last[1].stanza.hasType
    /\ CalledFns(last[1]) = <<"A">>
    /\ last[1].error = "none"

C10_NoListenerNoError ==
    \A i \in DOMAIN last :
        /\ (IsMessage(last[i]) /\ Len(last[i].emitted) = 1
              /\ ListenersOf(events, last[i].emitted[1]) = <<>>)
             => /\ last[i].error = "none"
                /\ Calls(last[i]) = <<>>
                /\ last[i].trace = << <<"next">> >>
        /\ (IsMessage(last[i]) /\ NoMarker(last[i])
              /\ last[i].stanza.hasType /\ last[i].stanza.type = "error"
              /\ events["err"] = <<>>)
             => /\ last[i].error = "none"
                /\ last[i].trace = << <<"next">> >>

\* A type="error" stanza went through a handler that has a chat listener only.
C10_Witness ==
    /\ Handled
    /\ IsMessage(last[1]) /\ NoMarker(last[1])
    /\ last[1].stanza.hasType /\ last[1].stanza.type = "error"
    /\ events["err"] = <<>> /\ events["error"] = <<>>
    /\ events["chat"] # <<>>
    /\ last[1].trace = << <<"next">> >>

(***************************************************************************)
(* C11: for a stanza whose root element is not 'message', no listener of   *)
(* any category is called, whatever children or type attribute it has, and *)
(* next() is the first and only thing the middleware calls.                *)
(***************************************************************************)
C11_NonMessageBypass ==
    \A i \in DOMAIN last :
        ~IsMessage(last[i])
            => /\ last[i].emitted = <<>>
               /\ Calls(last[i]) = <<>>
               /\ last[i].trace = << <<"next">> >>
               /\ last[i].error = "none"

\* A presence stanza with a 'composing' child and type="chat" went through a
\* handler that has listeners for both composing and chat.
C11_Witness ==
    /\ Handled
    /\ ~IsMessage(last[1])
    /\ last[1].stanza.composing
    /\ last[1].stanza.hasType /\ last[1].stanza.type = "chat"
    /\ events["composing"] # <<>> /\ events["chat"] # <<>>
    /\ last[1].trace = << <<"next">> >>

(***************************************************************************)
(* C12: a call of the factory without a setup function fails at once: no   *)
(* handler is created, the setup function is not called, no middleware is  *)
(* returned, and so no stanza is ever processed.                           *)
(***************************************************************************)
C12_NoSetupFunctionFails ==
    \A i \in DOMAIN factory :
        ~factory[i].fn
            => /\ pc = "failed"
               /\ factory[i].handler = 0
               /\ setupCalls = 0
               /\ events = Handler
               /\ last = <<>>

\* The factory has been called without fn.
C12_Witness ==
    /\ factory # <<>>
    /\ ~factory[1].fn
    /\ pc = "failed"

(***************************************************************************)
(* C13: the setup function is called exactly once per construction, before *)
(* the middleware exists, with the handler the middleware dispatches on;   *)
(* it is not called again, however many stanzas are processed.             *)
(***************************************************************************)
C13_SetupOnce ==
    /\ pc \in {"start", "failed"} => setupCalls = 0
    /\ pc \in {"setup", "ready"}
         => /\ setupCalls = 1
            /\ factory = << [fn |-> TRUE, handler |-> 1] >>
    /\ \A i \in DOMAIN last :
         /\ pc = "ready" /\ setupCalls = 1
         /\ IsMessage(last[i])
              => IsPrefix(CalledFns(last[i]), ListenersOf(events, last[i].emitted[1]))

\* A stanza has reached a listener attached by the one call of the setup function.
C13_Witness ==
    /\ Handled
    /\ setupCalls = 1
    /\ IsMessage(last[1])
    /\ CalledFns(last[1]) = <<"A", "B">>

(***************************************************************************)
(* C14: an invocation with a message stanza resolves exactly one category: *)
(* one event is emitted, every listener called is a listener of that       *)
(* category, and a listener attached only to other categories is not       *)
(* called.                                                                 *)
(***************************************************************************)
C14_OneCategory ==
    \A i \in DOMAIN last :
        IsMessage(last[i])
            => /\ Len(last[i].emitted) = 1
               /\ Len(Calls(last[i])) <= Len(ListenersOf(events, last[i].emitted[1]))
               /\ \A k \in 1..Len(Calls(last[i])) :
                    \E j \in 1..Len(ListenersOf(events, last[i].emitted[1])) :
                        CalledFns(last[i])[k] = ListenersOf(events, last[i].emitted[1])[j]

\* A composing stanza of type="chat": A listens on composing, B on chat; only A is called.
C14_Witness ==
    /\ Handled
    /\ IsMessage(last[1])
    /\ last[1].stanza.composing
    /\ last[1].stanza.hasType /\ last[1].stanza.type = "chat"
    /\ events["composing"] = <<"A">> /\ events["chat"] = <<"B">>
    /\ CalledFns(last[1]) = <<"A">>
    /\ NextCount(last[1]) = 1

(***************************************************************************)
(* C15 as stated: a message stanza without marker child whose type         *)
(* attribute is present, the empty string included, is never classified by *)
(* the 'normal' rule: it goes to err for "error" and otherwise to the      *)
(* category equal to the attribute value.                                  *)
(***************************************************************************)
C15_AsStated ==
    \A i \in DOMAIN last :
        (IsMessage(last[i]) /\ NoMarker(last[i]) /\ last[i].stanza.hasType)
            => last[i].emitted =
                 << IF last[i].stanza.type = "error" THEN "err" ELSE last[i].stanza.type >>

(***************************************************************************)
(* C15 amended: the 'normal' rule applies when the type attribute is       *)
(* missing or empty; a present, non-empty type is classified by the later  *)
(* rules (err for "error", otherwise the category equal to the value), so  *)
(* it is normal only if the value is "normal".                             *)
(***************************************************************************)
C15_NormalIffNoOrEmptyType ==
    \A i \in DOMAIN last :
        (IsMessage(last[i]) /\ NoMarker(last[i]))
            => /\ (~last[i].stanza.hasType \/ last[i].stanza.type = "")
                    => last[i].emitted = <<"normal">>
               /\ (last[i].stanza.hasType /\ last[i].stanza.type # "")
                    => /\ last[i].emitted =
                            << IF last[i].stanza.type = "error" THEN "err"
                               ELSE last[i].stanza.type >>
                       /\ last[i].emitted = <<"normal">>
                            => last[i].stanza.type = "normal"

\* A stanza with type="" has reached a listener of normal.
C15_Witness ==
    /\ Handled
    /\ IsMessage(last[1]) /\ NoMarker(last[1])
    /\ last[1].stanza.hasType /\ last[1].stanza.type = ""
    /\ last[1].emitted = <<"normal">>
    /\ CalledFns(last[1]) = <<"A">>

(***************************************************************************)
(* Reading the log.                                                        *)
(***************************************************************************)
\* Positions of the entries of kind op of invocation n.
EntriesOf(n, op) == {k \in DOMAIN log : log[k][1] = n /\ log[k][2] = op}

\* The stanza given to invocation n, and the categories it emitted.
StanzaOf(n) == log[CHOOSE k \in EntriesOf(n, "stage") : TRUE][3]
CategoriesOf(n) == {log[k][3] : k \in EntriesOf(n, "emit")}

\* The listener calls of invocation n logged before position p are exactly the
\* listeners ls, in order, each called with the stanza of n.
CalledAllBefore(n, p, ls) ==
    LET idx == {k \in EntriesOf(n, "call") : k < p}
    IN /\ Cardinality(idx) = Len(ls)
       /\ \A k \in idx :
            /\ log[k][3] = ls[Cardinality({j \in idx : j <= k})]
            /\ log[k][4] = <<StanzaOf(n)>>

(***************************************************************************)
(* C16: in an invocation with a message stanza next() is called only after *)
(* every listener of the resolved category has been called; and over a     *)
(* sequence of invocations the listener calls and the next() of one stanza *)
(* all come before anything done for the next stanza.                      *)
(***************************************************************************)
C16_ProceedAfterDispatch ==
    /\ \A p \in DOMAIN log :
         log[p][2] = "next"
            => /\ \A c \in CategoriesOf(log[p][1]) :
                    CalledAllBefore(log[p][1], p, ListenersOf(events, c))
               /\ \A q \in DOMAIN log : q > p => log[q][1] > log[p][1]
    /\ \A p, q \in DOMAIN log : p < q => log[p][1] <= log[q][1]

\* Two chat stanzas in a row, each reaching A and B before its next().
C16_Witness ==
    /\ Invocations(log) = 2
    /\ events["chat"] = <<"A", "B">>
    /\ CategoriesOf(1) = {"chat"} /\ CategoriesOf(2) = {"chat"}
    /\ Cardinality(EntriesOf(1, "call")) = 2
    /\ Cardinality(EntriesOf(2, "call")) = 2
    /\ EntriesOf(1, "next") # {} /\ EntriesOf(2, "next") # {}

C18_RegistryUnchanged == [][pc = "ready" => events' = events /\ pc' = "ready"]_vars

\* Two chat stanzas were dispatched; both chat listeners were called each time
\* and are still attached, in the same order.
C18_Witness ==
    /\ pc = "ready"
    /\ Invocations(log) = 2
    /\ CategoriesOf(1) = {"chat"} /\ CategoriesOf(2) = {"chat"}
    /\ Cardinality(EntriesOf(1, "call")) = 2
    /\ Cardinality(EntriesOf(2, "call")) = 2
    /\ events["chat"] = <<"A", "B">>

(***************************************************************************)
(* C19: each call of the factory makes its own handler and listener table: *)
(* a listener attached in the setup of one middleware is never called for  *)
(* a stanza given to the other, in any interleaving of the stanzas given   *)
(* to the two.                                                             *)
(***************************************************************************)
C19_OwnHandler ==
    /\ peer.pc \in {"setup", "ready"}
         => /\ peer.handler = 2
            /\ \A i \in DOMAIN factory : factory[i].handler # peer.handler
    /\ \A e \in EventNames :
         /\ \A k \in 1..Len(events[e]) : events[e][k] \in Listeners
         /\ \A k \in 1..Len(peer.events[e]) : peer.events[e][k] \in PeerListeners
    /\ \A i \in DOMAIN last :
         \A k \in 1..Len(Calls(last[i])) : CalledFns(last[i])[k] \notin PeerListeners
    /\ \A i \in DOMAIN peer.last :
         \A k \in 1..Len(Calls(peer.last[i])) : CalledFns(peer.last[i])[k] \notin Listeners

\* Both middlewares have a chat listener and both were given a chat stanza:
\* the first called A only, the second P only.
C19_Witness ==
    /\ Handled
    /\ peer.last # <<>>
    /\ events["chat"] = <<"A">> /\ peer.events["chat"] = <<"P">>
    /\ last[1].emitted = <<"chat">> /\ peer.last[1].emitted = <<"chat">>
    /\ CalledFns(last[1]) = <<"A">>
    /\ CalledFns(peer.last[1]) = <<"P">>
====
